---- MODULE Spec2Model ----
(***************************************************************************)
(* GMF portfolio optimisation: the forecasting scripts                     *)
(* (src/03_forecasting_models.py, src/04_forecast_future.py) and the       *)
(* backtest script (src/06_backtesting.py), as state machines over the     *)
(* artifact store (the pickle files the scripts exchange).                 *)
(*                                                                         *)
(* Conventions                                                             *)
(*  - A date is a day number; day 0 is a Monday, so d % 7 is the day of    *)
(*    the week (5 = Saturday, 6 = Sunday).                                 *)
(*  - A pandas Series is a sequence of points [d |-> date, v |-> value].   *)
(*    A numpy array derived from a Series keeps, in d, the date of the     *)
(*    observation each element was computed from: numpy drops the index,   *)
(*    the model keeps it so that the provenance of every value fed to a    *)
(*    fit or a metric can be stated.                                       *)
(*  - Real numbers are exact rationals <<n, d>>, d > 0, in lowest terms.   *)
(*    A square root is carried by its square: rmse by mse, a standard      *)
(*    deviation by its variance, a band offset c * z * sigma * sqrt(t/252) *)
(*    by its signed square sgn(c) * c^2 * z^2 * sigma^2 * t / 252 (the map *)
(*    x |-> sgn(x) * x^2 is strictly increasing, so order is preserved).   *)
(***************************************************************************)
EXTENDS Integers, Sequences, FiniteSets, TLC

(***************************************************************************)
(* Exact rational arithmetic                                               *)
(***************************************************************************)
Abs(x) == IF x < 0 THEN -x ELSE x

Sgn(x) == IF x < 0 THEN -1 ELSE IF x > 0 THEN 1 ELSE 0

RECURSIVE GCD(_, _)
GCD(a, b) == IF b = 0 THEN a ELSE GCD(b, a % b)

RNorm(n, d) ==
    LET g == GCD(Abs(n), Abs(d))
        s == IF d < 0 THEN -1 ELSE 1
    IN  <<(s * n) \div g, (s * d) \div g>>

RInt(k) == <<k, 1>>

RAdd(x, y) ==
    LET g == GCD(x[2], y[2])
    IN  RNorm(x[1] * (y[2] \div g) + y[1] * (x[2] \div g), x[2] * (y[2] \div g))

RNeg(x) == <<-x[1], x[2]>>

RSub(x, y) == RAdd(x, RNeg(y))

RMul(x, y) ==
    LET g1 == GCD(Abs(x[1]), y[2])
        g2 == GCD(Abs(y[1]), x[2])
    IN  RNorm((x[1] \div g1) * (y[1] \div g2), (x[2] \div g2) * (y[2] \div g1))

\* x / y, y # 0
RDiv(x, y) == RMul(x, RNorm(y[2], y[1]))

RAbs(x) == <<Abs(x[1]), x[2]>>

RECURSIVE CmpPos(_, _, _, _)
\* the sign of a/b - c/d for a, c >= 0 and b, d > 0, by continued fractions
\* (no product is formed, so no intermediate value outgrows the operands)
CmpPos(a, b, c, d) ==
    IF a \div b # c \div d THEN (IF a \div b < c \div d THEN -1 ELSE 1)
    ELSE IF a % b = 0 /\ c % d = 0 THEN 0
    ELSE IF a % b = 0 THEN -1
    ELSE IF c % d = 0 THEN 1
    ELSE -CmpPos(b, a % b, d, c % d)

\* the sign of x - y
RCmp(x, y) ==
    IF Sgn(x[1]) # Sgn(y[1]) THEN (IF Sgn(x[1]) < Sgn(y[1]) THEN -1 ELSE 1)
    ELSE IF x[1] >= 0 THEN CmpPos(x[1], x[2], y[1], y[2])
    ELSE CmpPos(-y[1], y[2], -x[1], x[2])

RLt(x, y) == RCmp(x, y) < 0

RLe(x, y) == RCmp(x, y) <= 0

RECURSIVE RSum(_)
RSum(s) == IF s = <<>> THEN RInt(0) ELSE RAdd(Head(s), RSum(Tail(s)))

\* mean of a non-empty sequence of rationals
RMean(s) == RDiv(RSum(s), RInt(Len(s)))

\* round half away from zero to k decimal places, as an integer count of 10^-k
Pow10(k) == IF k = 0 THEN 1 ELSE IF k = 1 THEN 10 ELSE IF k = 2 THEN 100
            ELSE IF k = 3 THEN 1000 ELSE 10000

RRound(x, k) ==
    LET a == Abs(x[1]) * Pow10(k)
        q == (2 * a + x[2]) \div (2 * x[2])
    IN  Sgn(x[1]) * q

(***************************************************************************)
(* Sequences                                                               *)
(***************************************************************************)
Min(a, b) == IF a < b THEN a ELSE b

SetMin(S) == CHOOSE x \in S : \A y \in S : x <= y

SetMax(S) == CHOOSE x \in S : \A y \in S : x >= y

RECURSIVE SortedSeq(_)
SortedSeq(S) == IF S = {} THEN <<>> ELSE <<SetMin(S)>> \o SortedSeq(S \ {SetMin(S)})

Range(s) == {s[i] : i \in 1..Len(s)}

\* s[a:b] of Python, 0-based, b exclusive
Slice(s, a, b) == SubSeq(s, a + 1, Min(b, Len(s)))

\* s[-n:] of Python (the whole of s when it is shorter than n)
LastN(s, n) == IF Len(s) <= n THEN s ELSE SubSeq(s, Len(s) - n + 1, Len(s))

Dates(s) == {s[i].d : i \in 1..Len(s)}

Values(s) == [i \in 1..Len(s) |-> s[i].v]

(***************************************************************************)
(* Sizes.  The source's window is 60 days, its horizon 252 steps, its cut   *)
(* 2023-12-31 / 2024-01-01; the model keeps the code and shortens the       *)
(* calendar: the cut falls on a Sunday (day 6) as 2023-12-31 did.           *)
(***************************************************************************)
seq_length == 2

steps == 3

TrainEnd == 6

TestStart == 7

\* the first and the last day the download may cover
FirstDay == TrainEnd - 2 - seq_length

LastDay == 11

\* no frame is longer than two windows and three targets
MaxLen == 2 * seq_length + 3

MaxPrice == 3

PriceSet == {1, MaxPrice}

\* outputs of the trained network (scaled space): Dense(1) is linear, so unbounded
PredSet == {-2, 0, 1}

\* ARIMA(0,1,0) without or with intercept: the forecast moves by drift per step
DriftSet == {0, 1}

\* the market is closed on the day the test period opens (New Year's Day)
Holidays == {TestStart}

Assets == {"TSLA", "BND", "SPY"}

IsWeekday(d) == d % 7 < 5

TradingDays == {d \in FirstDay..LastDay : IsWeekday(d) /\ d \notin Holidays}

\* index of the downloaded frame: trading days, with enough history on both
\* sides of the cut for one window and one target
Calendars ==
    {c \in SUBSET TradingDays :
        /\ Cardinality({d \in c : d <= TrainEnd}) > seq_length
        /\ Cardinality({d \in c : d >= TestStart}) > seq_length
        /\ Cardinality(c) <= MaxLen}

Ones(n) == [i \in 1..n |-> 1]

\* frames whose TSLA column varies (the forecasting scripts read no other column)
TslaFrames ==
    UNION {
        {[index |-> SortedSeq(c),
          cols |-> [a \in Assets |-> IF a = "TSLA" THEN p ELSE Ones(Cardinality(c))]] :
            p \in [1..Cardinality(c) -> PriceSet]} :
        c \in Calendars}

\* df[a]: one column of the frame as a Series
Column(df, a) == [i \in 1..Len(df.index) |-> [d |-> df.index[i], v |-> df.cols[a][i]]]

(***************************************************************************)
(* State                                                                   *)
(***************************************************************************)
VARIABLES
    files,      \* the artifact store: file name -> contents, or Absent
    running,    \* the script that is running, or "idle"
    pc,         \* the running script's position
    env         \* the running script's module-level names

vars == <<files, running, pc, env>>

Absent == [exists |-> FALSE]

Stored(x) == [exists |-> TRUE, content |-> x]

\* contents no later step reads are kept as a mark that the file was written
Written == Stored("written")

FileNames ==
    {"stock_data", "arima_model", "arima_forecast", "lstm_model", "scaler",
     "lstm_forecast", "future_forecast", "optimal_weights", "backtest_results",
     "model_comparison", "volume_data"}

Unfitted == [fitted |-> FALSE, data_min |-> 0, data_max |-> 0]

NoEnv == [script |-> "none"]

(***************************************************************************)
(* sklearn.preprocessing.MinMaxScaler(feature_range=(0, 1))                *)
(***************************************************************************)
\* data_range with sklearn's zero handling: a constant column scales by 1
ScaleRange(sc) == IF sc.data_max = sc.data_min THEN 1 ELSE sc.data_max - sc.data_min

ScalerFit(arr) ==
    [fitted |-> TRUE, data_min |-> SetMin(Range(Values(arr))),
     data_max |-> SetMax(Range(Values(arr)))]

ScalerTransform(sc, arr) ==
    [i \in 1..Len(arr) |->
        [d |-> arr[i].d, v |-> RNorm(arr[i].v - sc.data_min, ScaleRange(sc))]]

\* inverse_transform of one scaled value
ScalerInverse(sc, x) == RAdd(RMul(x, RInt(ScaleRange(sc))), RInt(sc.data_min))

\* the three calls made on a scaler: the scaler's state after the call, and the result
fit_transform(sc, arr) == [sc |-> ScalerFit(arr), out |-> ScalerTransform(ScalerFit(arr), arr)]

\* transform that refits the scaler on what it is given
transformRefit(sc, arr) == [sc |-> ScalerFit(arr), out |-> ScalerTransform(ScalerFit(arr), arr)]

transform(sc, arr) == [sc |-> sc, out |-> ScalerTransform(sc, arr)]

inverse_transform(sc, arr) ==
    [sc |-> sc, out |-> [i \in 1..Len(arr) |-> ScalerInverse(sc, arr[i])]]

(***************************************************************************)
(* src/03_forecasting_models.py                                            *)
(***************************************************************************)
\* s[:d] by label on a sorted index: every point dated d or earlier
UpTo(s, d) == SubSeq(s, 1, Cardinality({i \in 1..Len(s) : s[i].d <= d}))

\* s[d:] by label on a sorted index: every point dated d or later
From(s, d) == SubSeq(s, Cardinality({i \in 1..Len(s) : s[i].d < d}) + 1, Len(s))

\* the train slice ending on the first trading day of the test period
TrainPartLate(tsla) == UpTo(tsla, TestStart + 1)

TrainPart(tsla) == UpTo(tsla, TrainEnd)

TestPart(tsla) == From(tsla, TestStart)

\* create_sequences: window i is data[i:i+n], its target data[i+n]
create_sequences(data, n) ==
    LET m == IF Len(data) > n THEN Len(data) - n ELSE 0
    IN  [X |-> [i \in 1..m |-> SubSeq(data, i, i + n - 1)],
         y |-> [i \in 1..m |-> data[i + n]]]

\* what auto_arima is handed
ArimaFitInput(e) == e.train

\* the scaler fitted on the whole series
ScalerFitInputAll(e) == e.tsla

\* what the scaler is fitted on
ScalerFitInput(e) == e.train

\* what Sequential.fit is handed: the training windows and their targets
LstmFitInput(e) == [X |-> e.X_train, y |-> e.y_train]

\* the dates of the observations inside a set of windows and targets
WindowDates(xy) ==
    UNION {Dates(xy.X[i]) : i \in 1..Len(xy.X)} \cup Dates(xy.y)

\* arima_model.predict(n_periods = n)
ArimaPredict(m, n) == [h \in 1..n |-> RInt(m.last + m.drift * h)]

\* the actuals the LSTM predictions are scored against: test[:len(lstm_pred)]
LstmScoredActual(e) == Slice(e.test, 0, Len(e.lstm_pred))

\* the index given to the LSTM predictions: test_index[:len(lstm_pred)]
LstmForecastIndex(e) == Slice(e.test_index, 0, Len(e.lstm_pred))

AbsErrors(actual, pred) ==
    [i \in 1..Len(pred) |-> RAbs(RSub(RInt(actual[i].v), pred[i]))]

SqErrors(actual, pred) ==
    [i \in 1..Len(pred) |->
        RMul(RSub(RInt(actual[i].v), pred[i]), RSub(RInt(actual[i].v), pred[i]))]

PctErrors(actual, pred) ==
    [i \in 1..Len(pred) |->
        RDiv(RAbs(RSub(RInt(actual[i].v), pred[i])), RInt(Abs(actual[i].v)))]

mean_absolute_error(actual, pred) == RMean(AbsErrors(actual, pred))

mean_squared_error(actual, pred) == RMean(SqErrors(actual, pred))

mean_absolute_percentage_error(actual, pred) == RMean(PctErrors(actual, pred))

\* the metrics of one model; rmse is carried by its square
Metrics(actual, pred) ==
    [mae |-> mean_absolute_error(actual, pred),
     mse |-> mean_squared_error(actual, pred),
     mape |-> RMul(mean_absolute_percentage_error(actual, pred), RInt(100))]

NoMetrics == [mae |-> RInt(0), mse |-> RInt(0), mape |-> RInt(0)]

\* the comparison with ties going to the LSTM
RmseLessOrEqual(a, b) == RLe(a.mse, b.mse)

\* rmse_lstm < rmse_arima, both being non-negative square roots
RmseLess(a, b) == RLt(a.mse, b.mse)

Recommend(lstm, arima) == IF RmseLess(lstm, arima) THEN "LSTM" ELSE "ARIMA"

NoFits == [arima |-> {}, scaler |-> {}, lstm |-> {}]

Env03 ==
    [script |-> "03", tsla |-> <<>>, train |-> <<>>, test |-> <<>>,
     test_index |-> <<>>, arima_model |-> [last |-> 0, drift |-> 0],
     forecast_arima |-> <<>>, arima |-> NoMetrics,
     scaler |-> Unfitted, scaled_train |-> <<>>, scaled_test |-> <<>>,
     X_train |-> <<>>, y_train |-> <<>>, X_test |-> <<>>, y_test |-> <<>>,
     model |-> "untrained", lstm_pred_scaled |-> <<>>, lstm_pred |-> <<>>,
     lstm_forecast |-> <<>>, lstm |-> NoMetrics, recommendation |-> "none",
     fits |-> NoFits]

Start03 ==
    /\ running = "idle"
    /\ running' = "03"
    /\ pc' = "load"
    /\ env' = Env03
    /\ UNCHANGED files

\* 1. Load Data
Load03 ==
    /\ running = "03" /\ pc = "load"
    /\ IF files["stock_data"].exists
       THEN /\ env' = [env EXCEPT !.tsla = Column(files["stock_data"].content, "TSLA")]
            /\ pc' = "split"
       ELSE /\ pc' = "FileNotFoundError"
            /\ UNCHANGED env
    /\ UNCHANGED <<files, running>>

\* 2. Chronological Train-Test Split
Split03 ==
    /\ running = "03" /\ pc = "split"
    /\ env' = [env EXCEPT !.train = TrainPart(env.tsla),
                          !.test = TestPart(env.tsla),
                          !.test_index = [i \in 1..Len(TestPart(env.tsla)) |->
                                              TestPart(env.tsla)[i].d]]
    /\ pc' = "arima"
    /\ UNCHANGED <<files, running>>

\* 3. ARIMA Model: fit, forecast, save, metrics; nothing can be fitted to an empty
\* train, and the metrics of an empty test raise, before or after the two dumps
Arima03 ==
    /\ running = "03" /\ pc = "arima"
    /\ IF env.train = <<>>
       THEN pc' = "ValueError" /\ UNCHANGED <<env, files>>
       ELSE IF env.test = <<>>
       THEN /\ pc' = "ValueError"
            /\ UNCHANGED env
            /\ \/ UNCHANGED files
               \/ files' = [files EXCEPT !["arima_model"] = Written,
                                         !["arima_forecast"] = Written]
       ELSE /\ \E k \in DriftSet :
                LET fitted == [last |-> ArimaFitInput(env)[Len(ArimaFitInput(env))].v,
                               drift |-> k]
                    fc == ArimaPredict(fitted, Len(env.test))
                IN  env' = [env EXCEPT !.arima_model = fitted,
                                       !.forecast_arima = fc,
                                       !.arima = Metrics(env.test, fc),
                                       !.fits.arima = Dates(ArimaFitInput(env))]
            /\ files' = [files EXCEPT !["arima_model"] = Written,
                                      !["arima_forecast"] = Written]
            /\ pc' = "scale"
    /\ UNCHANGED running

\* 4. LSTM Model: scale data
Scale03 ==
    /\ running = "03" /\ pc = "scale"
    /\ LET a == fit_transform(env.scaler, ScalerFitInput(env))
           b == transform(a.sc, env.test)
       IN  env' = [env EXCEPT !.scaler = b.sc,
                              !.scaled_train = a.out,
                              !.scaled_test = b.out,
                              !.fits.scaler = Dates(ScalerFitInput(env))]
    /\ pc' = "sequences"
    /\ UNCHANGED <<files, running>>

\* create sequences (the window of seq_length days)
Sequences03 ==
    /\ running = "03" /\ pc = "sequences"
    /\ env' = [env EXCEPT !.X_train = create_sequences(env.scaled_train, seq_length).X,
                          !.y_train = create_sequences(env.scaled_train, seq_length).y,
                          !.X_test = create_sequences(env.scaled_test, seq_length).X,
                          !.y_test = create_sequences(env.scaled_test, seq_length).y]
    /\ pc' = "fit"
    /\ UNCHANGED <<files, running>>

\* build the network and fit it; Keras refuses an empty array
Fit03 ==
    /\ running = "03" /\ pc = "fit"
    /\ IF env.X_train = <<>>
       THEN pc' = "ValueError" /\ UNCHANGED env
       ELSE /\ env' = [env EXCEPT !.model = "trained",
                                  !.fits.lstm = WindowDates(LstmFitInput(env))]
            /\ pc' = "predict"
    /\ UNCHANGED <<files, running>>

\* predict one value per test window, unscale, index the predictions; Keras
\* refuses an empty array
Predict03 ==
    /\ running = "03" /\ pc = "predict"
    /\ IF env.X_test = <<>>
       THEN pc' = "ValueError" /\ UNCHANGED env
       ELSE /\ \E out \in [1..Len(env.X_test) -> PredSet] :
                LET scaled == [i \in 1..Len(out) |-> RInt(out[i])]
                    inv == inverse_transform(env.scaler, scaled)
                    e1 == [env EXCEPT !.lstm_pred_scaled = scaled,
                                      !.scaler = inv.sc,
                                      !.lstm_pred = inv.out]
                IN  env' = [e1 EXCEPT !.lstm_forecast =
                                [i \in 1..Len(e1.lstm_pred) |->
                                    [d |-> LstmForecastIndex(e1)[i], v |-> e1.lstm_pred[i]]]]
            /\ pc' = "save"
    /\ UNCHANGED <<files, running>>

\* save the model, the scaler and the forecast; LSTM metrics, the comparison
\* table and the recommendation
Finish03 ==
    /\ running = "03" /\ pc = "save"
    /\ files' = [files EXCEPT !["lstm_model"] = Stored(env.model),
                              !["scaler"] = Stored(env.scaler),
                              !["lstm_forecast"] = Written]
    /\ LET m == Metrics(LstmScoredActual(env), env.lstm_pred)
       IN  env' = [env EXCEPT !.lstm = m,
                              !.recommendation = Recommend(m, env.arima)]
    /\ pc' = "done"
    /\ UNCHANGED running

(***************************************************************************)
(* src/04_forecast_future.py                                               *)
(***************************************************************************)
RECURSIVE RollForward(_)
\* the first business day on or after d
RollForward(d) == IF IsWeekday(d) THEN d ELSE RollForward(d + 1)

\* pd.date_range: n calendar days from start on
date_range(start, n) == [i \in 1..n |-> start + i - 1]

RECURSIVE bdate_range(_, _)
\* pd.bdate_range(start, periods = n): n business days from start on
bdate_range(start, n) ==
    IF n = 0 THEN <<>>
    ELSE <<RollForward(start)>> \o bdate_range(RollForward(start) + 1, n - 1)

\* np.append(last_seq, [new_entry], axis=1): append without the shift
AppendNoShift(window, pred) == Append(window, pred)

\* np.append(last_seq[:, 1:, :], [new_entry], axis=1): shift left, append
ShiftAppend(window, pred) == Append(Tail(window), pred)

\* the window handed to model.predict in the next iteration
PredictInput(e) == e.last_seq

\* tsla.pct_change().dropna()
pct_change(s) ==
    [i \in 1..(Len(s) - 1) |-> RNorm(s[i + 1].v - s[i].v, s[i].v)]

\* the square of Series.std() (ddof = 1) of two or more values
Variance(r) ==
    LET m == RMean(r)
        dev == [i \in 1..Len(r) |-> RMul(RSub(r[i], m), RSub(r[i], m))]
    IN  RDiv(RSum(dev), RInt(Len(r) - 1))

TradingYear == 252

\* 1.96
confidence_level == RNorm(196, 100)

\* historical_vol * sqrt(252 / t), squared
CumulativeVarInverted(vol2, t) == RMul(vol2, RNorm(TradingYear, t))

\* the square of cumulative_std[t] = historical_vol * sqrt(t / 252)
CumulativeVar(vol2, t) == RMul(vol2, RNorm(t, TradingYear))

\* center * confidence_level * cumulative_std[t], as its signed square
BandOffset(center, vol2, t) ==
    RMul(RMul(RInt(Sgn(center[1])), RMul(center, center)),
         RMul(RMul(confidence_level, confidence_level), CumulativeVar(vol2, t)))

\* center * (1 + confidence_level * cumulative_std): the center plus the offset
UpperBand(center, vol2, t) == [center |-> center, off |-> BandOffset(center, vol2, t)]

\* center * (1 - confidence_level * cumulative_std): the center minus the offset
LowerBand(center, vol2, t) == [center |-> center, off |-> RNeg(BandOffset(center, vol2, t))]

Env04 ==
    [script |-> "04", tsla |-> <<>>, model |-> "none", scaler |-> Unfitted,
     last_seq |-> <<>>, preds |-> <<>>, calls |-> <<>>, future_forecast |-> <<>>,
     historical_var |-> RInt(0), upper |-> <<>>, lower |-> <<>>]

Start04 ==
    /\ running = "idle"
    /\ running' = "04"
    /\ pc' = "load"
    /\ env' = Env04
    /\ UNCHANGED files

\* Load Data & Model with the load error swallowed: an untrained network and a
\* default scaler stand in for the files that are missing
Load04Defaults ==
    /\ running = "04" /\ pc = "load"
    /\ IF ~files["stock_data"].exists
       THEN pc' = "FileNotFoundError" /\ UNCHANGED env
       ELSE /\ env' = [env EXCEPT
                    !.tsla = Column(files["stock_data"].content, "TSLA"),
                    !.model = IF files["lstm_model"].exists
                              THEN files["lstm_model"].content ELSE "untrained",
                    !.scaler = IF files["scaler"].exists
                               THEN files["scaler"].content
                               ELSE [fitted |-> TRUE, data_min |-> 0, data_max |-> 1]]
            /\ pc' = "seed"
    /\ UNCHANGED <<files, running>>

\* 1. Load Data & Model
Load04 ==
    /\ running = "04" /\ pc = "load"
    /\ IF ~files["stock_data"].exists
       THEN pc' = "FileNotFoundError" /\ UNCHANGED env
       ELSE IF ~files["lstm_model"].exists \/ ~files["scaler"].exists
       THEN pc' = "Exception" /\ UNCHANGED env
       ELSE /\ env' = [env EXCEPT !.tsla = Column(files["stock_data"].content, "TSLA"),
                                  !.model = files["lstm_model"].content,
                                  !.scaler = files["scaler"].content]
            /\ pc' = "seed"
    /\ UNCHANGED <<files, running>>

\* forecast_future: scale the last seq_length days
Seed04 ==
    /\ running = "04" /\ pc = "seed"
    /\ IF Len(env.tsla) < seq_length
       THEN pc' = "ValueError" /\ UNCHANGED env
       ELSE /\ LET t == transform(env.scaler, LastN(env.tsla, seq_length))
               IN  env' = [env EXCEPT !.scaler = t.sc, !.last_seq = Values(t.out)]
            /\ pc' = "loop"
    /\ UNCHANGED <<files, running>>

\* forecast_future: one iteration of the prediction loop
Step04 ==
    /\ running = "04" /\ pc = "loop"
    /\ Len(env.preds) < steps
    /\ \E out \in PredSet :
        env' = [env EXCEPT !.calls = Append(env.calls, PredictInput(env)),
                           !.preds = Append(env.preds, RInt(out)),
                           !.last_seq = ShiftAppend(env.last_seq, RInt(out))]
    /\ UNCHANGED <<files, running, pc>>

\* forecast_future: unscale, date the predictions, return; the script saves them
Finish04 ==
    /\ running = "04" /\ pc = "loop"
    /\ Len(env.preds) >= steps
    /\ LET inv == inverse_transform(env.scaler, env.preds)
           last_date == env.tsla[Len(env.tsla)].d
           future_index == bdate_range(last_date + 1, steps)
       IN  env' = [env EXCEPT !.scaler = inv.sc,
                              !.future_forecast =
                                  [i \in 1..Len(inv.out) |->
                                      [d |-> future_index[i], v |-> inv.out[i]]]]
    /\ files' = [files EXCEPT !["future_forecast"] = Written]
    /\ pc' = "bands"
    /\ UNCHANGED running

\* 0 / 0: the std of fewer than two returns, and whatever is computed from it
NaNR == <<0, 0>>

\* 3. Confidence Intervals
Bands04 ==
    /\ running = "04" /\ pc = "bands"
    /\ LET n == Len(env.future_forecast)
       IN  IF Len(pct_change(env.tsla)) < 2
           THEN env' = [env EXCEPT
                    !.historical_var = NaNR,
                    !.upper = [t \in 1..n |->
                        [center |-> env.future_forecast[t].v, off |-> NaNR]],
                    !.lower = [t \in 1..n |->
                        [center |-> env.future_forecast[t].v, off |-> NaNR]]]
           ELSE LET vol2 == Variance(pct_change(env.tsla))
                IN  env' = [env EXCEPT
                        !.historical_var = vol2,
                        !.upper = [t \in 1..n |->
                            UpperBand(env.future_forecast[t].v, vol2, t)],
                        !.lower = [t \in 1..n |->
                            LowerBand(env.future_forecast[t].v, vol2, t)]]
    /\ pc' = "done"
    /\ UNCHANGED <<files, running>>

(***************************************************************************)
(* src/06_backtesting.py                                                   *)
(***************************************************************************)
\* the backtesting period, Wednesday to Monday (2024-08-01 to 2025-07-31 in the source)
backtest_start == 9

backtest_end == 14

AssetSeq == <<"TSLA", "BND", "SPY">>

\* the benchmark with its two weights exchanged
weights_benchmark_swapped == [a \in Assets |->
    IF a = "BND" THEN RNorm(6, 10) ELSE IF a = "SPY" THEN RNorm(4, 10) ELSE RInt(0)]

\* the 60/40 benchmark
weights_benchmark == [a \in Assets |->
    IF a = "BND" THEN RNorm(4, 10) ELSE IF a = "SPY" THEN RNorm(6, 10) ELSE RInt(0)]

\* the annual risk-free rate, 0.03
rf == RNorm(3, 100)

EmptyFrame == [index |-> <<>>, cols |-> [a \in Assets |-> <<>>]]

\* df[a:b] by label on a sorted index: the rows dated a to b, both included
RowsBetween(df, a, b) ==
    LET lo == Cardinality({i \in 1..Len(df.index) : df.index[i] < a})
        hi == Cardinality({i \in 1..Len(df.index) : df.index[i] <= b})
    IN  [index |-> SubSeq(df.index, lo + 1, hi),
         cols |-> [c \in Assets |-> SubSeq(df.cols[c], lo + 1, hi)]]

\* the position of the last row dated d or earlier
LastRowAt(df, d) == Cardinality({i \in 1..Len(df.index) : df.index[i] <= d})

\* asfreq('D').ffill(): one row per calendar day from the first to the last date,
\* a day without a row taking the values of the last row before it
asfreq_ffill(df) ==
    IF df.index = <<>> THEN df
    ELSE LET first == df.index[1]
             n == df.index[Len(df.index)] - first + 1
         IN  [index |-> [k \in 1..n |-> first + k - 1],
              cols |-> [c \in Assets |->
                  [k \in 1..n |-> df.cols[c][LastRowAt(df, first + k - 1)]]]]

\* DataFrame.pct_change().dropna(): the first row has no return and is dropped
frame_pct_change(df) ==
    IF df.index = <<>> THEN EmptyFrame
    ELSE [index |-> Tail(df.index),
          cols |-> [c \in Assets |->
              [k \in 1..(Len(df.index) - 1) |->
                  RNorm(df.cols[c][k + 1] - df.cols[c][k], df.cols[c][k])]]]

\* (returns_df * weights).sum(axis=1)
weighted_returns(returns_df, weights) ==
    [k \in 1..Len(returns_df.index) |->
        [d |-> returns_df.index[k],
         v |-> RSum([j \in 1..Len(AssetSeq) |->
                     RMul(returns_df.cols[AssetSeq[j]][k], weights[AssetSeq[j]])])]]

RECURSIVE Product(_)
Product(s) == IF s = <<>> THEN RInt(1) ELSE RMul(Product(SubSeq(s, 1, Len(s) - 1)), s[Len(s)])

\* (1 + weighted_returns.cumsum()): returns added, not compounded
cumsum1p(w) ==
    [k \in 1..Len(w) |->
        [d |-> w[k].d, v |-> RAdd(RInt(1), RSum([j \in 1..k |-> w[j].v]))]]

\* (1 + weighted_returns).cumprod()
cumprod1p(w) ==
    [k \in 1..Len(w) |->
        [d |-> w[k].d, v |-> Product([j \in 1..k |-> RAdd(RInt(1), w[j].v)])]]

portfolio_cumulative_returns(returns_df, weights) ==
    cumprod1p(weighted_returns(returns_df, weights))

\* Series.pct_change().dropna()
series_pct_change(s) ==
    [k \in 1..(Len(s) - 1) |->
        [d |-> s[k + 1].d, v |-> RSub(RDiv(s[k + 1].v, s[k].v), RInt(1))]]

\* returns - rf / 252
ExcessReturns(returns) ==
    [k \in 1..Len(returns) |->
        [d |-> returns[k].d, v |-> RSub(returns[k].v, RDiv(rf, RInt(TradingYear)))]]

NaN == [kind |-> "nan", mean |-> RInt(0), var |-> RInt(0)]

\* mean / std * sqrt(252), carried by the mean and the variance of the excess
\* returns; fewer than two values have no std (nan), a zero std divides by zero
annualized_sharpe_ratio(returns) ==
    LET e == Values(ExcessReturns(returns))
    IN  IF Len(e) < 2 THEN NaN
        ELSE IF Variance(e)[1] = 0
        THEN [kind |-> IF RMean(e)[1] = 0 THEN "nan"
                       ELSE IF RMean(e)[1] > 0 THEN "inf" ELSE "-inf",
              mean |-> RMean(e), var |-> RInt(0)]
        ELSE [kind |-> "num", mean |-> RMean(e), var |-> Variance(e)]

\* mean_a / std_a > mean_b / std_b for means of one sign, by the squares:
\* (mean_a / mean_b)^2 > var_a / var_b
RatioGreater(a, b) ==
    LET q == RDiv(a.mean, b.mean)
        r == RDiv(a.var, b.var)
    IN  CmpPos(q[1] * q[1], q[2] * q[2], r[1], r[2]) > 0

\* a > b on floats
SharpeGreater(a, b) ==
    IF a.kind = "nan" \/ b.kind = "nan" THEN FALSE
    ELSE IF a.kind = "inf" THEN b.kind # "inf"
    ELSE IF a.kind = "-inf" THEN FALSE
    ELSE IF b.kind = "inf" THEN FALSE
    ELSE IF b.kind = "-inf" THEN TRUE
    ELSE IF Sgn(a.mean[1]) # Sgn(b.mean[1]) THEN Sgn(a.mean[1]) > Sgn(b.mean[1])
    ELSE IF Sgn(a.mean[1]) = 0 THEN FALSE
    ELSE IF Sgn(a.mean[1]) > 0 THEN RatioGreater(a, b)
    ELSE RatioGreater(b, a)

\* (cumulative.iloc[-1] - 1) * 100
total_return(cumulative) == RMul(RSub(cumulative[Len(cumulative)].v, RInt(1)), RInt(100))

\* the verdict with 'or' for 'and'
ConclusionEither(outperformed_return, outperformed_sharpe) ==
    IF outperformed_return \/ outperformed_sharpe THEN "outperformed"
    ELSE "benchmark outperformed"

Conclusion(outperformed_return, outperformed_sharpe) ==
    IF outperformed_return /\ outperformed_sharpe THEN "outperformed"
    ELSE IF outperformed_return THEN "higher return, lower Sharpe"
    ELSE "benchmark outperformed"

NoResults ==
    [strategy_return |-> RInt(0), benchmark_return |-> RInt(0), strategy_sharpe |-> NaN,
     benchmark_sharpe |-> NaN, outperformed |-> FALSE]

Env06 ==
    [script |-> "06", df |-> EmptyFrame, optimal_weights |-> [a \in Assets |-> RInt(0)],
     backtest_df |-> EmptyFrame, weights_strategy |-> [a \in Assets |-> RInt(0)],
     asset_returns |-> EmptyFrame, daily_strategy |-> <<>>, daily_benchmark |-> <<>>,
     cumulative_strategy |-> <<>>, cumulative_benchmark |-> <<>>,
     sharpe_input_strategy |-> <<>>, sharpe_input_benchmark |-> <<>>,
     sharpe_strategy |-> NaN, sharpe_benchmark |-> NaN,
     total_return_strategy |-> RInt(0), total_return_benchmark |-> RInt(0),
     conclusion |-> "none", results |-> NoResults]

Start06 ==
    /\ running = "idle"
    /\ running' = "06"
    /\ pc' = "load"
    /\ env' = Env06
    /\ UNCHANGED files

\* 1. Load Data
Load06 ==
    /\ running = "06" /\ pc = "load"
    /\ IF ~files["stock_data"].exists \/ ~files["optimal_weights"].exists
       THEN pc' = "FileNotFoundError" /\ UNCHANGED env
       ELSE /\ env' = [env EXCEPT !.df = files["stock_data"].content,
                                  !.optimal_weights = files["optimal_weights"].content]
            /\ pc' = "window"
    /\ UNCHANGED <<files, running>>

\* the backtesting period, one row per calendar day
Window06 ==
    /\ running = "06" /\ pc = "window"
    /\ env' = [env EXCEPT !.backtest_df =
                    asfreq_ffill(RowsBetween(env.df, backtest_start, backtest_end))]
    /\ pc' = "returns"
    /\ UNCHANGED <<files, running>>

\* 2. Define Portfolios, 3. Calculate Portfolio Returns
Returns06 ==
    /\ running = "06" /\ pc = "returns"
    /\ LET r == frame_pct_change(env.backtest_df)
       IN  env' = [env EXCEPT
                !.weights_strategy = env.optimal_weights,
                !.asset_returns = r,
                !.daily_strategy = weighted_returns(r, env.optimal_weights),
                !.daily_benchmark = weighted_returns(r, weights_benchmark),
                !.cumulative_strategy = portfolio_cumulative_returns(r, env.optimal_weights),
                !.cumulative_benchmark = portfolio_cumulative_returns(r, weights_benchmark)]
    /\ pc' = "metrics"
    /\ UNCHANGED <<files, running>>

\* 4. Performance Metrics
Metrics06 ==
    /\ running = "06" /\ pc = "metrics"
    /\ LET e1 == [env EXCEPT
                !.sharpe_input_strategy = series_pct_change(env.cumulative_strategy),
                !.sharpe_input_benchmark = series_pct_change(env.cumulative_benchmark)]
           e2 == [e1 EXCEPT
                !.sharpe_strategy = annualized_sharpe_ratio(e1.sharpe_input_strategy),
                !.sharpe_benchmark = annualized_sharpe_ratio(e1.sharpe_input_benchmark)]
       IN  IF env.cumulative_strategy = <<>>
           THEN env' = e2 /\ pc' = "IndexError"
           ELSE /\ env' = [e2 EXCEPT
                    !.total_return_strategy = total_return(env.cumulative_strategy),
                    !.total_return_benchmark = total_return(env.cumulative_benchmark)]
                /\ pc' = "conclude"
    /\ UNCHANGED <<files, running>>

\* 5. Visualization, 6. Results & Conclusion; the results are saved
Finish06 ==
    /\ running = "06" /\ pc = "conclude"
    /\ LET outperformed_return ==
                RLt(env.total_return_benchmark, env.total_return_strategy)
           outperformed_sharpe == SharpeGreater(env.sharpe_strategy, env.sharpe_benchmark)
           results == [strategy_return |-> env.total_return_strategy,
                       benchmark_return |-> env.total_return_benchmark,
                       strategy_sharpe |-> env.sharpe_strategy,
                       benchmark_sharpe |-> env.sharpe_benchmark,
                       outperformed |-> outperformed_return /\ outperformed_sharpe]
       IN  /\ env' = [env EXCEPT
                    !.conclusion = Conclusion(outperformed_return, outperformed_sharpe),
                    !.results = results]
           /\ files' = [files EXCEPT !["backtest_results"] = Stored(results)]
    /\ pc' = "done"
    /\ UNCHANGED running

(***************************************************************************)
(* backend/services: the functions the API routes return                   *)
(***************************************************************************)
\* the keys get_model_comparison reads
RequiredKeys == {"arima_rmse", "arima_mape", "lstm_rmse", "lstm_mape"}

\* the hardcoded metrics 9.12, 6.8, 6.38, 4.9, in hundredths
FallbackComparison ==
    [models |-> <<[name |-> "ARIMA", RMSE |-> 912, MAPE |-> 680],
                  [name |-> "LSTM", RMSE |-> 638, MAPE |-> 490]>>]

\* the result built from loaded metrics: round(x, 2), in hundredths
RealComparison(metrics) ==
    [models |-> <<[name |-> "ARIMA", RMSE |-> RRound(metrics["arima_rmse"], 2),
                   MAPE |-> RRound(metrics["arima_mape"], 2)],
                  [name |-> "LSTM", RMSE |-> RRound(metrics["lstm_rmse"], 2),
                   MAPE |-> RRound(metrics["lstm_mape"], 2)]>>]

\* joblib.load succeeds and every key read is there
MetricsUsable(f) ==
    /\ f.exists
    /\ f.content.loadable
    /\ RequiredKeys \subseteq DOMAIN f.content.data

\* forecast_service.get_model_comparison; fallback records that the function took
\* the path that prints "Using fallback model comparison metrics."
get_model_comparison ==
    /\ running = "idle"
    /\ running' = "serve"
    /\ LET f == files["model_comparison"]
       IN  IF MetricsUsable(f)
           THEN env' = [script |-> "serve", fn |-> "get_model_comparison",
                        response |-> RealComparison(f.content.data),
                        fallback |-> FALSE]
           ELSE env' = [script |-> "serve", fn |-> "get_model_comparison",
                        response |-> FallbackComparison, fallback |-> TRUE]
    /\ pc' = "done"
    /\ UNCHANGED files

NoResponse == [none |-> TRUE]

\* the caller's view of a function that needs a file: what it returned, or nothing
ServeEnv(fn, found, r) ==
    [script |-> "serve", fn |-> fn,
     response |-> IF found THEN r ELSE NoResponse, fallback |-> FALSE]

ServePc(found) == IF found THEN "done" ELSE "FileNotFoundError"

\* forecast_service.get_forecast: the saved Series as a list of points
get_forecast ==
    /\ running = "idle"
    /\ running' = "serve"
    /\ env' = ServeEnv("get_forecast", files["future_forecast"].exists,
                       [points |-> files["future_forecast"].content])
    /\ pc' = ServePc(files["future_forecast"].exists)
    /\ UNCHANGED files

\* portfolio_service.get_optimal_portfolio
get_optimal_portfolio ==
    /\ running = "idle"
    /\ running' = "serve"
    /\ env' = ServeEnv("get_optimal_portfolio", files["optimal_weights"].exists,
                       [weights |-> files["optimal_weights"].content,
                        expected_return |-> RNorm(98, 10),
                        volatility |-> RNorm(102, 10),
                        sharpe_ratio |-> RNorm(67, 100)])
    /\ pc' = ServePc(files["optimal_weights"].exists)
    /\ UNCHANGED files

\* the dict get_backtest_results builds from the loaded results
BacktestResponse(results) ==
    [strategy_return |-> results.strategy_return,
     benchmark_return |-> results.benchmark_return,
     strategy_sharpe |-> results.strategy_sharpe,
     benchmark_sharpe |-> results.benchmark_sharpe]

\* portfolio_service.get_backtest_results
get_backtest_results ==
    /\ running = "idle"
    /\ running' = "serve"
    /\ env' = ServeEnv("get_backtest_results", files["backtest_results"].exists,
                       BacktestResponse(files["backtest_results"].content))
    /\ pc' = ServePc(files["backtest_results"].exists)
    /\ UNCHANGED files

(***************************************************************************)
(* A script's process ends, normally or with an uncaught exception: its    *)
(* names are gone, the files stay.                                         *)
(***************************************************************************)
Errors == {"FileNotFoundError", "Exception", "ValueError", "IndexError", "RuntimeError"}

Exit ==
    /\ running # "idle"
    /\ pc \in {"done"} \cup Errors
    /\ running' = "idle"
    /\ pc' = "none"
    /\ env' = NoEnv
    /\ UNCHANGED files

(***************************************************************************)
(* The forecasting pipeline: the data is there, the scripts run one at a    *)
(* time, in any order, any number of times.                                *)
(***************************************************************************)
Init ==
    /\ \E df \in TslaFrames :
        files = [f \in FileNames |-> IF f = "stock_data" THEN Stored(df) ELSE Absent]
    /\ running = "idle"
    /\ pc = "none"
    /\ env = NoEnv

Next ==
    \/ Start03 \/ Load03 \/ Split03 \/ Arima03 \/ Scale03 \/ Sequences03
    \/ Fit03 \/ Predict03 \/ Finish03
    \/ Start04 \/ Load04 \/ Seed04 \/ Step04 \/ Finish04 \/ Bands04
    \/ Exit

Spec == Init /\ [][Next]_vars

(***************************************************************************)
(* The backtest: prices and weights are there or not, the script runs any  *)
(* number of times.                                                        *)
(***************************************************************************)
BacktestPriceSet == {1, 2}

MaxRows == 4

\* trading days in and just after the backtesting period
BacktestDays == {d \in backtest_start..(backtest_end + 1) : IsWeekday(d)}

BacktestFrames ==
    UNION {
        {[index |-> SortedSeq(c),
          cols |-> [a \in Assets |->
                IF a = "TSLA" THEN p ELSE IF a = "SPY" THEN q ELSE Ones(Cardinality(c))]] :
            p \in [1..Cardinality(c) -> BacktestPriceSet],
            q \in [1..Cardinality(c) -> BacktestPriceSet]} :
        c \in {c \in SUBSET BacktestDays : Cardinality(c) <= MaxRows}}

\* three consecutive days of one moving asset
ScenarioFrame ==
    [index |-> <<backtest_start, backtest_start + 1, backtest_start + 2>>,
     cols |-> [a \in Assets |-> IF a = "TSLA" THEN <<100, 102, 99>> ELSE Ones(3)]]

SingleAsset == [a \in Assets |-> IF a = "TSLA" THEN RInt(1) ELSE RInt(0)]

\* 60 % SPY, 40 % BND, as the optimisation step may have saved it
SixtyForty == [a \in Assets |->
    IF a = "SPY" THEN RNorm(3, 5) ELSE IF a = "BND" THEN RNorm(2, 5) ELSE RInt(0)]

\* weight vectors the optimisation step may have saved
WeightVectors ==
    {SingleAsset, SixtyForty,
     [a \in Assets |-> IF a = "BND" THEN RInt(0) ELSE RNorm(1, 2)],
     [a \in Assets |-> IF a = "TSLA" THEN RNorm(1, 5) ELSE RNorm(2, 5)]}

InitBacktest ==
    /\ \E df \in BacktestFrames \cup {ScenarioFrame} :
       \E w \in {Stored(x) : x \in WeightVectors} \cup {Absent} :
            files = [f \in FileNames |->
                IF f = "stock_data" THEN Stored(df)
                ELSE IF f = "optimal_weights" THEN w ELSE Absent]
    /\ running = "idle"
    /\ pc = "none"
    /\ env = NoEnv

NextBacktest ==
    \/ Start06 \/ Load06 \/ Window06 \/ Returns06 \/ Metrics06 \/ Finish06
    \/ Exit

SpecBacktest == InitBacktest /\ [][NextBacktest]_vars

(***************************************************************************)
(* The service layer over a store the backtest writes to: prices and       *)
(* weights are there, a metrics file is absent, unreadable, incomplete or  *)
(* complete.                                                               *)
(***************************************************************************)
Metrics4(ar, am, lr, lm) ==
    [k \in RequiredKeys |->
        IF k = "arima_rmse" THEN ar ELSE IF k = "arima_mape" THEN am
        ELSE IF k = "lstm_rmse" THEN lr ELSE lm]

\* metrics a training run may have measured: 9.12 / 6.8 / 6.38 / 4.9 exactly, the
\* same to two places, and others
MetricsSet ==
    {Metrics4(RNorm(912, 100), RNorm(68, 10), RNorm(638, 100), RNorm(49, 10)),
     Metrics4(RNorm(9123, 1000), RNorm(6801, 1000), RNorm(6378, 1000), RNorm(4902, 1000)),
     Metrics4(RInt(5), RInt(3), RInt(7), RInt(4))}

\* model_comparison.pkl: absent, not loadable, loadable with a key missing, complete
ComparisonFiles ==
    {Absent, Stored([loadable |-> FALSE])}
    \cup {Stored([loadable |-> TRUE, data |-> m]) : m \in MetricsSet}
    \cup {Stored([loadable |-> TRUE,
                  data |-> [k \in RequiredKeys \ {"lstm_mape"} |-> m[k]]]) : m \in MetricsSet}

\* prices on the first three days of the backtesting period
ServeFrames ==
    {df \in BacktestFrames :
        df.index = <<backtest_start, backtest_start + 1, backtest_start + 2>>}

InitServe ==
    /\ \E df \in ServeFrames \cup {ScenarioFrame} :
       \E w \in WeightVectors :
       \E c \in ComparisonFiles :
            files = [f \in FileNames |->
                IF f = "stock_data" THEN Stored(df)
                ELSE IF f = "optimal_weights" THEN Stored(w)
                ELSE IF f = "model_comparison" THEN c ELSE Absent]
    /\ running = "idle"
    /\ pc = "none"
    /\ env = NoEnv

NextServe ==
    \/ Start06 \/ Load06 \/ Window06 \/ Returns06 \/ Metrics06 \/ Finish06
    \/ get_forecast \/ get_model_comparison \/ get_optimal_portfolio
    \/ get_backtest_results
    \/ Exit

SpecServe == InitServe /\ [][NextServe]_vars

(***************************************************************************)
(* The forecasting scripts over short histories: the download covers few   *)
(* days, a model and a scaler of an earlier training may be there.         *)
(***************************************************************************)
MaxShort == 4

\* the short downloads, and the downloads that cover every trading day
ShortFrames ==
    UNION {
        {[index |-> SortedSeq(c),
          cols |-> [a \in Assets |-> IF a = "TSLA" THEN p ELSE Ones(Cardinality(c))]] :
            p \in [1..Cardinality(c) -> PriceSet]} :
        c \in {c \in SUBSET TradingDays : Cardinality(c) <= MaxShort} \cup {TradingDays}}

\* the scaler of an earlier training on prices between 1 and MaxPrice
EarlierScaler == [fitted |-> TRUE, data_min |-> 1, data_max |-> MaxPrice]

InitShort ==
    /\ \E df \in ShortFrames :
       \E trained \in BOOLEAN :
            files = [f \in FileNames |->
                IF f = "stock_data" THEN Stored(df)
                ELSE IF f = "lstm_model" /\ trained THEN Stored("trained")
                ELSE IF f = "scaler" /\ trained THEN Stored(EarlierScaler)
                ELSE Absent]
    /\ running = "idle"
    /\ pc = "none"
    /\ env = NoEnv

SpecShort == InitShort /\ [][Next]_vars

(***************************************************************************)
(* src/01_data_extraction.py and the external optimiser                    *)
(***************************************************************************)
\* every trading day, price 1 and MaxPrice in turn
Alternating == [i \in 1..Cardinality(TradingDays) |-> IF i % 2 = 1 THEN 1 ELSE MaxPrice]

\* what a download may return: every trading day with TSLA or SPY moving, or one
\* day only
DownloadFrames ==
    {[index |-> SortedSeq(TradingDays),
      cols |-> [a \in Assets |->
            IF a = "TSLA" THEN Alternating ELSE Ones(Cardinality(TradingDays))]],
     [index |-> SortedSeq(TradingDays),
      cols |-> [a \in Assets |->
            IF a = "SPY" THEN Alternating ELSE Ones(Cardinality(TradingDays))]],
     [index |-> <<backtest_start + 1>>, cols |-> [a \in Assets |-> <<1>>]]}

\* fetch_data: download, save prices and volumes
Extract01 ==
    /\ running = "idle"
    /\ \E df \in DownloadFrames :
        files' = [files EXCEPT !["stock_data"] = Stored(df), !["volume_data"] = Written]
    /\ running' = "01"
    /\ pc' = "done"
    /\ env' = [script |-> "01"]

\* the optimiser, outside this code: it leaves a weight vector in optimal_weights.pkl
Optimize05 ==
    /\ running = "idle"
    /\ \E w \in {SingleAsset, SixtyForty} :
        files' = [files EXCEPT !["optimal_weights"] = Stored(w)]
    /\ running' = "05"
    /\ pc' = "done"
    /\ env' = [script |-> "05"]

(***************************************************************************)
(* The whole pipeline from an empty store: the scripts, the optimiser and  *)
(* the service functions run one at a time, in any order, any number of    *)
(* times.                                                                  *)
(***************************************************************************)
InitPipeline ==
    /\ files = [f \in FileNames |-> Absent]
    /\ running = "idle"
    /\ pc = "none"
    /\ env = NoEnv

NextPipeline ==
    \/ Extract01
    \/ Start03 \/ Load03 \/ Split03 \/ Arima03 \/ Scale03 \/ Sequences03
    \/ Fit03 \/ Predict03 \/ Finish03
    \/ Start04 \/ Load04 \/ Seed04 \/ Step04 \/ Finish04 \/ Bands04
    \/ Optimize05
    \/ Start06 \/ Load06 \/ Window06 \/ Returns06 \/ Metrics06 \/ Finish06
    \/ get_forecast \/ get_model_comparison \/ get_optimal_portfolio
    \/ get_backtest_results
    \/ Exit

SpecPipeline == InitPipeline /\ [][NextPipeline]_vars

(***************************************************************************)
(* Claims about src/03_forecasting_models.py                               *)
(***************************************************************************)
In03(labels) == running = "03" /\ pc \in labels

AfterSplit03 == {"arima", "scale", "sequences", "fit", "predict", "save", "done"}

AfterPredict03 == {"save", "done"}

\* C1: the chronological split partitions the series: train followed by test is
\* the series, no date is on both sides, and train ends strictly before test starts.
C1_SplitPartitions ==
    In03(AfterSplit03) =>
        /\ env.train \o env.test = env.tsla
        /\ Dates(env.train) \cap Dates(env.test) = {}
        /\ \A i \in 1..Len(env.train) : \A j \in 1..Len(env.test) :
                env.train[i].d < env.test[j].d
        /\ env.train[Len(env.train)].d < env.test[1].d

\* the split has acted on a series with a gap in its test period
C1_Witness ==
    /\ In03({"arima"})
    /\ Len(env.train) = 3
    /\ Len(env.test) = 3
    /\ env.test[3].d - env.test[1].d = 3

\* C2: no look-ahead: every observation handed to a fitting step (ARIMA, scaler,
\* LSTM windows and targets) is dated strictly before the first test date.
C2_NoLookAhead ==
    In03(AfterSplit03) =>
        \A d \in env.fits.arima \cup env.fits.scaler \cup env.fits.lstm :
            d < env.test[1].d

\* the three fitting steps have run
C2_Witness ==
    /\ In03({"predict"})
    /\ env.fits.arima # {}
    /\ env.fits.scaler # {}
    /\ Cardinality(env.fits.lstm) = 3

\* C4 as claimed: every direct prediction is computed from seq_length consecutive
\* actual values and is dated as, and scored against, the actual that follows them.
C4_PredictionAlignedWithTarget ==
    In03({"done"}) =>
        /\ Len(env.lstm_pred) = Len(LstmScoredActual(env))
        /\ Len(env.lstm_pred) = Len(env.X_test)
        /\ \A i \in 1..Len(env.lstm_pred) :
            /\ Dates(env.X_test[i]) = {env.test[j].d : j \in i..(i + seq_length - 1)}
            /\ env.y_test[i].d = env.test[i + seq_length].d
            /\ env.lstm_forecast[i].d = env.y_test[i].d
            /\ LstmScoredActual(env)[i].d = env.y_test[i].d

\* the scaler fitted on the training partition of the stored prices
TrainFit == ScalerFit(TrainPart(Column(files["stock_data"].content, "TSLA")))

\* C6: the scaler's state is the fit on the training partition, in the training
\* script, in the saved file and in the forecast script, and every scaled or
\* unscaled array was computed with that state.
C6_ScalerFittedOnTrainOnly ==
    /\ files["scaler"].exists => files["scaler"].content = TrainFit
    /\ (running \in {"03", "04"} /\ env.scaler.fitted) => env.scaler = TrainFit
    /\ In03({"sequences", "fit", "predict", "save", "done"}) =>
            /\ env.scaled_train = ScalerTransform(TrainFit, env.train)
            /\ env.scaled_test = ScalerTransform(TrainFit, env.test)
    /\ In03(AfterPredict03) =>
            env.lstm_pred = [i \in 1..Len(env.lstm_pred_scaled) |->
                                ScalerInverse(TrainFit, env.lstm_pred_scaled[i])]
    /\ (running = "04" /\ pc = "loop" /\ env.preds = <<>>) =>
            env.last_seq = Values(ScalerTransform(TrainFit, LastN(env.tsla, seq_length)))
    /\ (running = "04" /\ pc \in {"bands", "done"}) =>
            Values(env.future_forecast) =
                [i \in 1..Len(env.preds) |-> ScalerInverse(TrainFit, env.preds[i])]

\* the forecast script has used a loaded scaler that a fit on the test
\* partition would not have produced
C6_Witness ==
    /\ running = "04" /\ pc = "done"
    /\ env.scaler.fitted
    /\ env.scaler # ScalerFit(TestPart(env.tsla))
    /\ env.scaler # ScalerFit(LastN(env.tsla, seq_length))

\* C7 as claimed: the strictly lower RMSE wins, and on equal RMSE the lower MAPE wins.
C7_TieBrokenByMape ==
    In03({"done"}) =>
        /\ RLt(env.lstm.mse, env.arima.mse) => env.recommendation = "LSTM"
        /\ RLt(env.arima.mse, env.lstm.mse) => env.recommendation = "ARIMA"
        /\ env.lstm.mse = env.arima.mse =>
            /\ RLt(env.lstm.mape, env.arima.mape) => env.recommendation = "LSTM"
            /\ RLt(env.arima.mape, env.lstm.mape) => env.recommendation = "ARIMA"

\* C7 amended: the LSTM is recommended exactly when its RMSE is strictly lower;
\* on equal RMSE the ARIMA model is recommended, whatever the MAPE values.
C7_RmseOnly ==
    In03({"done"}) =>
        /\ env.lstm = Metrics(LstmScoredActual(env), env.lstm_pred)
        /\ env.arima = Metrics(env.test, env.forecast_arima)
        /\ env.recommendation = "LSTM" <=> RLt(env.lstm.mse, env.arima.mse)
        /\ env.recommendation = "ARIMA" <=> ~RLt(env.lstm.mse, env.arima.mse)

\* equal RMSE, the LSTM's MAPE lower, and ARIMA recommended
C7_Witness ==
    /\ In03({"done"})
    /\ env.lstm.mse = env.arima.mse
    /\ RLt(env.lstm.mape, env.arima.mape)
    /\ env.recommendation = "ARIMA"

(***************************************************************************)
(* Claims about src/04_forecast_future.py                                  *)
(***************************************************************************)
In04(labels) == running = "04" /\ pc \in labels

\* the last seq_length observations, scaled: the window the loop starts from
SeedWindow == Values(ScalerTransform(env.scaler, LastN(env.tsla, seq_length)))

\* the window after k iterations: the seq_length - min(k, seq_length) most recent
\* observations, then the last min(k, seq_length) predictions in generation order
WindowAfter(k) ==
    SubSeq(SeedWindow, Min(k, seq_length) + 1, seq_length)
        \o SubSeq(env.preds, k - Min(k, seq_length) + 1, k)

\* C3: the recursive forecast keeps a window of exactly seq_length values, made of
\* the most recent observations followed by the predictions fed back so far; each
\* prediction is computed from that window; the loop makes exactly steps predictions.
C3_RecursiveWindow ==
    In04({"loop", "bands", "done"}) =>
        /\ Len(env.last_seq) = seq_length
        /\ Len(env.preds) <= steps
        /\ env.last_seq = WindowAfter(Len(env.preds))
        /\ PredictInput(env) = WindowAfter(Len(env.preds))
        /\ Len(env.calls) = Len(env.preds)
        /\ \A k \in 1..Len(env.calls) : env.calls[k] = WindowAfter(k - 1)
        /\ pc \in {"bands", "done"} =>
            /\ Len(env.preds) = steps
            /\ Len(env.future_forecast) = steps

\* the loop has run to its end, the window holds predictions only, and they
\* differ from the observations they replaced
C3_Witness ==
    /\ In04({"done"})
    /\ Len(env.preds) = steps
    /\ env.last_seq = SubSeq(env.preds, steps - seq_length + 1, steps)
    /\ env.last_seq # SeedWindow
    /\ env.preds[1] # env.preds[2]
    /\ env.calls[2] = <<SeedWindow[2], env.preds[1]>>

\* C5: the forecast has steps points, on consecutive business days, the first
\* being the first business day after the last date of the input series.
C5_ForecastDates ==
    In04({"bands", "done"}) =>
        LET ff == env.future_forecast
            last_date == env.tsla[Len(env.tsla)].d
        IN  /\ Len(ff) = steps
            /\ \A i \in 1..Len(ff) : ff[i].d % 7 \notin {5, 6}
            /\ \A i \in 1..Len(ff) : ff[i].d > last_date
            /\ \A d \in (last_date + 1)..(ff[1].d - 1) : d % 7 \in {5, 6}
            /\ \A i \in 1..(Len(ff) - 1) :
                /\ ff[i].d < ff[i + 1].d
                /\ \A d \in (ff[i].d + 1)..(ff[i + 1].d - 1) : d % 7 \in {5, 6}

\* a series ending on a Friday: the forecast starts on the Monday after
C5_Witness ==
    /\ In04({"done"})
    /\ env.tsla[Len(env.tsla)].d % 7 = 4
    /\ env.future_forecast[1].d = env.tsla[Len(env.tsla)].d + 3

\* lower[i] <= center[i] and center[i] <= upper[i]: the offsets' signs decide
BandLe(x, y) == x.center = y.center /\ x.off[1] <= y.off[1]

\* the forecast value as a band with no offset
Center(i) == [center |-> env.future_forecast[i].v, off |-> RInt(0)]

\* C8 as claimed: lower[i] <= forecast[i] <= upper[i] at every step, for every
\* forecast the recursive forecaster can return.
C8_BandContainsForecast ==
    In04({"done"}) =>
        \A i \in 1..Len(env.future_forecast) :
            /\ BandLe(env.lower[i], Center(i))
            /\ BandLe(Center(i), env.upper[i])

\* upper[i] - lower[i], as its signed square: both share the center and carry
\* opposite offsets, so the width is twice the upper offset
WidthSq(i) == RMul(RInt(4), env.upper[i].off)

CenterSq(i) == RMul(env.future_forecast[i].v, env.future_forecast[i].v)

In06(labels) == running = "06" /\ pc \in labels

\* the weighted sum over the three assets on row k of the returns frame
WeightedSum(k, w) ==
    RAdd(RAdd(RMul(w["TSLA"], env.asset_returns.cols["TSLA"][k]),
              RMul(w["BND"], env.asset_returns.cols["BND"][k])),
         RMul(w["SPY"], env.asset_returns.cols["SPY"][k]))

\* daily return = sum of weight x asset return; cumulative return = the running
\* product of (1 + daily return) from 1; total return % = (final cumulative - 1) x 100
ReturnFormulas(daily, cumulative, total, w) ==
    /\ Len(daily) = Len(env.asset_returns.index)
    /\ Len(cumulative) = Len(daily)
    /\ \A k \in 1..Len(daily) :
        /\ daily[k].v = WeightedSum(k, w)
        /\ cumulative[k].v =
                RMul(IF k = 1 THEN RInt(1) ELSE cumulative[k - 1].v,
                     RAdd(RInt(1), daily[k].v))
    /\ total = RMul(RSub(cumulative[Len(cumulative)].v, RInt(1)), RInt(100))

BacktestFormulas ==
    In06({"conclude", "done"}) =>
        /\ ReturnFormulas(env.daily_strategy, env.cumulative_strategy,
                          env.total_return_strategy, env.weights_strategy)
        /\ ReturnFormulas(env.daily_benchmark, env.cumulative_benchmark,
                          env.total_return_benchmark, weights_benchmark)

\* the run over the series [100, 102, 99] with all weight on that asset
ScenarioRun ==
    /\ In06({"conclude", "done"})
    /\ env.df = ScenarioFrame
    /\ env.weights_strategy = SingleAsset

\* C10 as claimed: the three formulas, and on the series [100, 102, 99] daily returns
\* [0.02, -0.0294], cumulative returns [1.02, 0.9902], total return -0.98 %
\* (returns to four decimal places, the percentage to two).
C10_ScenarioAsStated ==
    /\ BacktestFormulas
    /\ ScenarioRun =>
        /\ [k \in 1..2 |-> RRound(env.daily_strategy[k].v, 4)] = <<200, -294>>
        /\ [k \in 1..2 |-> RRound(env.cumulative_strategy[k].v, 4)] = <<10200, 9902>>
        /\ RRound(env.total_return_strategy, 2) = -98

\* C10 amended: the three formulas hold for the strategy and for the benchmark, and
\* the series [100, 102, 99] gives daily returns [1/50, -1/34] (0.02, -0.0294),
\* cumulative returns [51/50, 99/100] (1.02, 0.99) and a total return of -1.00 %.
C10_BacktestReturns ==
    /\ BacktestFormulas
    /\ ScenarioRun =>
        /\ Values(env.daily_strategy) = <<RNorm(1, 50), RNorm(-1, 34)>>
        /\ [k \in 1..2 |-> RRound(env.daily_strategy[k].v, 4)] = <<200, -294>>
        /\ Values(env.cumulative_strategy) = <<RNorm(51, 50), RNorm(99, 100)>>
        /\ env.total_return_strategy = RInt(-1)

\* the scenario has run to its end and saved its results
C10_Witness ==
    /\ ScenarioRun
    /\ pc = "done"
    /\ files["backtest_results"].exists
    /\ Len(env.cumulative_strategy) = 2

\* the series annualized_sharpe_ratio receives is the daily portfolio returns,
\* element for element, and the ratio is taken over each of them less rf / 252
SharpeOverDaily(input, daily) ==
    /\ Len(input) = Len(daily)
    /\ \A k \in 1..Len(daily) :
        ExcessReturns(input)[k].v = RSub(daily[k].v, RDiv(rf, RInt(TradingYear)))

\* C11 as claimed: the Sharpe ratio of each portfolio is computed over exactly the
\* daily portfolio returns of the window, the first day's return included, each
\* less 0.03 / 252.
C11_SharpeOverDailyReturns ==
    In06({"conclude", "done"}) =>
        /\ Len(env.daily_strategy) = Len(env.cumulative_strategy)
        /\ SharpeOverDaily(env.sharpe_input_strategy, env.daily_strategy)
        /\ SharpeOverDaily(env.sharpe_input_benchmark, env.daily_benchmark)

\* the dates of the downloaded prices
SourceDates == Range(env.df.index)

\* row k of the returns frame is on a date the prices do not have, and every
\* asset's return on it is zero
FilledZeroReturn(k) ==
    /\ env.asset_returns.index[k] \notin SourceDates
    /\ \A a \in Assets : env.asset_returns.cols[a][k] = RInt(0)

\* C12 as claimed: a date missing inside the window takes the prices of the trading
\* day before it, and no entry of the return series used for the cumulative return
\* and the Sharpe ratio is a zero return that exists only because a date was filled.
C12_NoZeroReturnFromFill ==
    In06({"conclude", "done"}) =>
        /\ \A i \in 1..Len(env.backtest_df.index) : \A a \in Assets :
            env.backtest_df.cols[a][i] =
                env.df.cols[a][LastRowAt(env.df, env.backtest_df.index[i])]
        /\ Dates(env.cumulative_strategy) = Range(env.asset_returns.index)
        /\ \A k \in 1..Len(env.asset_returns.index) : ~FilledZeroReturn(k)

\* a == b on floats: NaN equals nothing, itself included
SharpeEqual(a, b) ==
    /\ a.kind # "nan" /\ b.kind # "nan"
    /\ ~SharpeGreater(a, b) /\ ~SharpeGreater(b, a)

\* the strategy was given the benchmark's weights
BenchmarkAsStrategy ==
    /\ In06({"done"})
    /\ env.weights_strategy = SixtyForty

ReturnExceeds == RCmp(env.total_return_strategy, env.total_return_benchmark) > 0

\* the strategy's Sharpe ratio is strictly greater than the benchmark's
SharpeExceeds == SharpeGreater(env.sharpe_strategy, env.sharpe_benchmark)

\* C14: the saved outperformed flag and the 'outperformed' conclusion are produced
\* exactly when both the total return and the Sharpe ratio of the strategy are
\* strictly greater than the benchmark's; in every other case, any equality among
\* them, the flag is false and the verdict is the qualified or the negative one.
C14_Verdict ==
    In06({"done"}) =>
        /\ files["backtest_results"].content.outperformed
                <=> (ReturnExceeds /\ SharpeExceeds)
        /\ env.conclusion = "outperformed" <=> (ReturnExceeds /\ SharpeExceeds)
        /\ ~(ReturnExceeds /\ SharpeExceeds) =>
                env.conclusion \in {"higher return, lower Sharpe", "benchmark outperformed"}
        /\ env.total_return_strategy = env.total_return_benchmark =>
                ~files["backtest_results"].content.outperformed
        /\ env.sharpe_strategy = env.sharpe_benchmark =>
                ~files["backtest_results"].content.outperformed
        /\ files["backtest_results"].content.outperformed = env.results.outperformed

\* a run whose Sharpe ratio exceeds the benchmark's while its return does not:
\* the flag is false and the verdict negative
C14_Witness ==
    /\ In06({"done"})
    /\ SharpeExceeds /\ ~ReturnExceeds
    /\ ~files["backtest_results"].content.outperformed
    /\ env.conclusion = "benchmark outperformed"

\* the stored prices have no row inside the backtesting period
EmptyWindow ==
    /\ files["stock_data"].exists /\ files["optimal_weights"].exists
    /\ RowsBetween(files["stock_data"].content, backtest_start, backtest_end).index = <<>>

\* C18 as claimed: on a window without data the backtest ends in the empty-window
\* error as soon as the window is cut, before a return or a Sharpe ratio is
\* computed and with no results written.
C18_EmptyWindowError ==
    (running = "06" /\ EmptyWindow /\ pc \notin {"load", "window"}) =>
        /\ pc = "EmptyWindowError"
        /\ env.sharpe_input_strategy = <<>> /\ env.sharpe_strategy = NaN
        /\ ~files["backtest_results"].exists

(***************************************************************************)
(* Claims about backend/services                                           *)
(***************************************************************************)
Served(fn) == running = "serve" /\ env.fn = fn

\* what get_model_comparison can return from metrics that were saved
RealResults == {RealComparison(m) : m \in MetricsSet}

\* C15 as claimed: a result made of the hardcoded default metrics is flagged, so that
\* it is equal in shape and content to no result built from saved metrics.
C15_FallbackDistinguishable ==
    (Served("get_model_comparison") /\ pc = "done" /\ env.fallback) =>
        /\ "fallback" \in DOMAIN env.response
        /\ env.response \notin RealResults

\* C16 as claimed: the hardcoded default is substituted only when the metrics file
\* is absent; a file that is there but cannot be loaded or lacks a key makes the
\* call end in an error.
C16_FallbackOnlyWhenAbsent ==
    Served("get_model_comparison") =>
        /\ (pc = "done" /\ env.fallback) => ~files["model_comparison"].exists
        /\ (files["model_comparison"].exists /\ ~MetricsUsable(files["model_comparison"]))
                => pc \in Errors

(***************************************************************************)
(* Claims about short histories                                            *)
(***************************************************************************)
\* C17 as claimed: given a series shorter than the window, the sequence forecaster
\* fails with the insufficient-history error: window construction does not return
\* for a train or a test partition shorter than seq_length, and the future forecast
\* neither proceeds nor ends in another error on a series shorter than seq_length.
C17_InsufficientHistoryError ==
    /\ In03({"fit", "predict", "save", "done"}) =>
            /\ Len(env.scaled_train) >= seq_length
            /\ Len(env.scaled_test) >= seq_length
    /\ (running = "04" /\ env.model # "none" /\ Len(env.tsla) < seq_length) =>
            pc \in {"seed", "InsufficientHistoryError"}

\* the fields the backtest saves
ResultFields ==
    {"strategy_return", "benchmark_return", "strategy_sharpe", "benchmark_sharpe",
     "outperformed"}

\* C19 as claimed: get_backtest_results returns the five fields the backtest wrote,
\* each with the value that was saved.
C19_BacktestResultsRoundTrip ==
    (Served("get_backtest_results") /\ pc = "done") =>
        /\ DOMAIN files["backtest_results"].content = ResultFields
        /\ DOMAIN env.response = ResultFields
        /\ \A k \in DOMAIN env.response :
                env.response[k] = files["backtest_results"].content[k]

(***************************************************************************)
(* Claims about the order in which the artifacts come to be                *)
(***************************************************************************)
Prerequisites04 ==
    files["stock_data"].exists /\ files["lstm_model"].exists /\ files["scaler"].exists

Prerequisites06 == files["stock_data"].exists /\ files["optimal_weights"].exists

\* C20: from an empty store, whatever the order of the runs: future_forecast.pkl is
\* written only by a forecast run that found the prices, the model and the scaler;
\* backtest_results.pkl only by a backtest run that found the prices and the
\* weights; a run that misses a prerequisite ends in an error at once and writes
\* nothing; and no service function creates or changes a file.
C20_ArtifactOrdering ==
    [][/\ files'["future_forecast"] # files["future_forecast"] =>
            /\ running = "04" /\ Prerequisites04
            /\ env.model = files["lstm_model"].content
       /\ files'["backtest_results"] # files["backtest_results"] =>
            /\ running = "06" /\ Prerequisites06
            /\ env.optimal_weights = files["optimal_weights"].content
       /\ (running = "04" /\ pc = "load" /\ ~Prerequisites04) =>
            (pc' \in Errors /\ files' = files)
       /\ (running = "06" /\ pc = "load" /\ ~Prerequisites06) =>
            (pc' \in Errors /\ files' = files)
       /\ (running \in {"04", "06"} /\ pc \in Errors) =>
            (running' = "idle" /\ files' = files)
       /\ (running = "serve" \/ running' = "serve") => files' = files]_vars

\* both artifacts were written and are being served
C20_Witness ==
    /\ Served("get_backtest_results") /\ pc = "done"
    /\ files["future_forecast"].exists
    /\ files["backtest_results"].exists

====
